---------------------------- MODULE Spec2Model ----------------------------
(***************************************************************************)
(* ProtoRPC: the JSON codec (python/protorpc/protojson.py) and the WSGI    *)
(* service dispatcher (python/protorpc/wsgi/service.py).                   *)
(*                                                                         *)
(* Python values are tagged records; every kind has its own field names:   *)
(*   None    [k |-> "None"]                                                *)
(*   int     [k |-> "int",   i |-> 3]                                      *)
(*   float   [k |-> "float", f |-> 3]          (the float 3.0)             *)
(*   bool    [k |-> "bool",  b |-> TRUE]                                   *)
(*   text    [k |-> "str",   s |-> <<"a","b">>]   (str and unicode)        *)
(*   bytes   [k |-> "bytes", y |-> <<0, 255>>]                             *)
(*   list    [k |-> "list",  l |-> <<v1, v2>>]                             *)
(*   dict    [k |-> "dict",  d |-> [key |-> v]]                            *)
(*   Enum    [k |-> "enum",  et |-> type, en |-> name, eo |-> number]      *)
(*   Message [k |-> "msg",   mt |-> type, mv |-> [field |-> v or None]]    *)
(* A text is a sequence of symbols: data strings are spelled character by  *)
(* character, the fixed phrases of the source are one symbol each.         *)
(* What simplejson.loads returns and what simplejson.dumps serialises are  *)
(* the values built from None, int, float, bool, text, list and dict.      *)
(***************************************************************************)
EXTENDS Integers, Sequences, FiniteSets, TLC

VARIABLES
  \* ---- codec harness (protojson.encode_message / decode_message) ----
  phase,        \* "idle" | "init" | "encoded" | "decoded"
  message,      \* the message handed to encode_message, or None
  target,       \* the message_type handed to decode_message
  wire,         \* the encoded_message handed to decode_message, or None
  encoded,      \* what encode_message returned (an outcome), or None
  decoded,      \* what decode_message returned (an outcome), or None
  \* ---- one request in protorpc_service_app ----
  environ,      \* the WSGI environ of the request: a dict
  pc,           \* where the handler is: "idle" | "start" | "content_type" |
                \*   "verb" | "protocol" | "method" | "decode" | "construct" |
                \*   "invoke" | "done"
  method_name,  \* path_match.group(2), "" before the path is matched
  content_type, \* the local content_type, "" before it is set
  protocol,     \* the protocol looked up for the content type, or None
  request,      \* the decoded request message, or None
  instances,    \* how many times service_factory() was called
  request_state,\* what initialize_request_state was given, or None
  behaviour,    \* what the service method did when invoked, or None
  responses,    \* the start_response calls made, in order, each with its body
  escaped,      \* the exception class that left the handler, "" if none
  \* ---- several requests in one application ----
  frames,       \* request -> the locals of its call of protorpc_service_app
  instance_calls \* service instance -> how many times its method was called

cvars == <<phase, message, target, wire, encoded, decoded>>
dvars == <<environ, pc, method_name, content_type, protocol, request,
           instances, request_state, behaviour, responses, escaped>>
kvars == <<frames, instance_calls>>
vars == <<phase, message, target, wire, encoded, decoded,
          environ, pc, method_name, content_type, protocol, request,
          instances, request_state, behaviour, responses, escaped,
          frames, instance_calls>>

\* ------------------------------------------------------------------ bounds
MaxRepeat == 2      \* longest list held by a repeated field / JSON array
MaxBytesLen == 2    \* longest byte string held by a bytes field
NumRequests == 2    \* requests in flight in one application

\* ------------------------------------------------------------ python values
None == [k |-> "None"]
PyInt(n) == [k |-> "int", i |-> n]
PyFloat(n) == [k |-> "float", f |-> n]
PyBool(x) == [k |-> "bool", b |-> x]
PyStr(t) == [k |-> "str", s |-> t]
PyBytes(t) == [k |-> "bytes", y |-> t]
PyList(t) == [k |-> "list", l |-> t]
PyDict(f) == [k |-> "dict", d |-> f]
PyEnum(type, name, number) == [k |-> "enum", et |-> type, en |-> name, eo |-> number]
PyMsg(type, vals) == [k |-> "msg", mt |-> type, mv |-> vals]

\* The outcome of a call: a returned value or a raised exception class.
Return(v) == [ok |-> TRUE, value |-> v]
Raise(cls) == [ok |-> FALSE, error |-> cls]

SeqsUpTo(S, n) == UNION {[1..m -> S] : m \in 0..n}
Range(q) == {q[j] : j \in DOMAIN q}

\* ----------------------------------------------------- the message schema
\* protorpc.messages: field descriptors, enum types, message types.
Field(name, kind, type, repeated, required) ==
  [name |-> name, kind |-> kind, type |-> type,
   repeated |-> repeated, required |-> required]

RED == <<"R", "E", "D">>
GREEN == <<"G", "R", "E", "E", "N">>

EnumTypes ==
  [Color |-> {PyEnum("Color", RED, 1), PyEnum("Color", GREEN, 2)},
   RpcState |-> {PyEnum("RpcState", <<"OK">>, 0),
                 PyEnum("RpcState", <<"RUNNING">>, 1),
                 PyEnum("RpcState", <<"REQUEST_ERROR">>, 2),
                 PyEnum("RpcState", <<"SERVER_ERROR">>, 3),
                 PyEnum("RpcState", <<"NETWORK_ERROR">>, 4),
                 PyEnum("RpcState", <<"APPLICATION_ERROR">>, 5),
                 PyEnum("RpcState", <<"METHOD_NOT_FOUND_ERROR">>, 6)}]

RpcStateOf(name) == CHOOSE e \in EnumTypes["RpcState"] : e.en = <<name>>

MessageTypes ==
  [Inner |-> <<Field("n", "Integer", "", FALSE, TRUE),
               Field("t", "String", "", FALSE, FALSE)>>,
   Scalars |-> <<Field("i", "Integer", "", FALSE, FALSE),
                 Field("f", "Float", "", FALSE, FALSE),
                 Field("s", "String", "", FALSE, FALSE),
                 Field("b", "Boolean", "", FALSE, FALSE)>>,
   Rich |-> <<Field("e", "Enum", "Color", FALSE, FALSE),
              Field("y", "Bytes", "", FALSE, FALSE),
              Field("m", "Message", "Inner", FALSE, TRUE)>>,
   ListI |-> <<Field("ri", "Integer", "", TRUE, FALSE),
               Field("re", "Enum", "Color", TRUE, FALSE)>>,
   ListY |-> <<Field("ry", "Bytes", "", TRUE, FALSE)>>,
   ListM |-> <<Field("rm", "Message", "Inner", TRUE, FALSE)>>,
   RpcStatus |-> <<Field("state", "Enum", "RpcState", FALSE, TRUE),
                   Field("error_message", "String", "", FALSE, FALSE),
                   Field("error_name", "String", "", FALSE, FALSE)>>]

\* Message.all_fields()
all_fields(message_type) == Range(MessageTypes[message_type])
FieldNames(message_type) == {fd.name : fd \in all_fields(message_type)}

\* Message.field_by_name(name): raises KeyError for a name that is no field.
field_by_name(message_type, name) ==
  IF name \in FieldNames(message_type)
  THEN Return(CHOOSE fd \in all_fields(message_type) : fd.name = name)
  ELSE Raise("KeyError")

\* message_type(): a fresh instance, no field assigned.
NewMessage(message_type) ==
  PyMsg(message_type, [n \in FieldNames(message_type) |-> None])

\* Field.validate_element: the value is of the field's kind.
IsOfKind(fd, v) ==
  CASE fd.kind = "Integer" -> v.k = "int"
    [] fd.kind = "Float" -> v.k = "float"
    [] fd.kind = "String" -> v.k = "str"
    [] fd.kind = "Boolean" -> v.k = "bool"
    [] fd.kind = "Bytes" -> v.k = "bytes"
    [] fd.kind = "Enum" -> v.k = "enum" /\ v.et = fd.type
    [] fd.kind = "Message" -> v.k = "msg" /\ v.mt = fd.type

\* Field.validate, run by setattr(message, name, value): a repeated field takes
\* a list of elements of its kind, another field one element of its kind.
validate(fd, v) ==
  IF fd.repeated
  THEN v.k = "list" /\ \A j \in DOMAIN v.l : IsOfKind(fd, v.l[j])
  ELSE IsOfKind(fd, v)

\* Message.is_initialized(): every required field is assigned, and every
\* assigned message value (also inside a repeated field) is initialized.
RECURSIVE is_initialized(_)
is_initialized(m) ==
  \A fd \in all_fields(m.mt) :
    LET v == m.mv[fd.name] IN
      /\ fd.required => v # None
      /\ (fd.kind = "Message" /\ v # None) =>
           IF fd.repeated
           THEN \A j \in DOMAIN v.l : is_initialized(v.l[j])
           ELSE is_initialized(v)

\* Message.check_initialized(): raises ValidationError unless initialized.
check_initialized(m) ==
  IF is_initialized(m) THEN Return(None) ELSE Raise("ValidationError")

\* Enum type call, field.type(item): by number for an int, by name for a
\* text; TypeError when there is no such value.
EnumLookup(type, item) ==
  LET hits == {e \in EnumTypes[type] :
                 \/ item.k = "int" /\ e.eo = item.i
                 \/ item.k = "str" /\ e.en = item.s}
  IN IF hits = {} THEN Raise("TypeError")
     ELSE Return(CHOOSE e \in hits : TRUE)

\* ------------------------------------------------------------------ base64
B64Alphabet ==
  <<"A","B","C","D","E","F","G","H","I","J","K","L","M","N","O","P",
    "Q","R","S","T","U","V","W","X","Y","Z","a","b","c","d","e","f",
    "g","h","i","j","k","l","m","n","o","p","q","r","s","t","u","v",
    "w","x","y","z","0","1","2","3","4","5","6","7","8","9","+","/">>
BASE64_PAD == "="

\* table_a2b_base64: the 6-bit value of a symbol, -1 for one outside the alphabet.
B64Index(c) ==
  IF \E j \in 1..64 : B64Alphabet[j] = c
  THEN (CHOOSE j \in 1..64 : B64Alphabet[j] = c) - 1
  ELSE -1

\* base64.b64encode: three bytes to four symbols, the tail padded with "=".
RECURSIVE b64encode(_)
b64encode(y) ==
  IF Len(y) = 0 THEN <<>>
  ELSE IF Len(y) = 1
  THEN <<B64Alphabet[(y[1] \div 4) + 1],
         B64Alphabet[((y[1] % 4) * 16) + 1],
         BASE64_PAD, BASE64_PAD>>
  ELSE IF Len(y) = 2
  THEN <<B64Alphabet[(y[1] \div 4) + 1],
         B64Alphabet[((y[1] % 4) * 16 + (y[2] \div 16)) + 1],
         B64Alphabet[((y[2] % 16) * 4) + 1],
         BASE64_PAD>>
  ELSE <<B64Alphabet[(y[1] \div 4) + 1],
         B64Alphabet[((y[1] % 4) * 16 + (y[2] \div 16)) + 1],
         B64Alphabet[((y[2] % 16) * 4 + (y[3] \div 64)) + 1],
         B64Alphabet[(y[3] % 64) + 1]>>
       \o b64encode(SubSeq(y, 4, Len(y)))

\* binascii_find_valid: the (num+1)th symbol from pos on that the table knows
\* (the pad is in the table), "" when there is none.
RECURSIVE binascii_find_valid(_, _, _)
binascii_find_valid(s, pos, num) ==
  IF pos > Len(s) THEN ""
  ELSE IF s[pos] = BASE64_PAD \/ B64Index(s[pos]) # -1
  THEN IF num = 0 THEN s[pos] ELSE binascii_find_valid(s, pos + 1, num - 1)
  ELSE binascii_find_valid(s, pos + 1, num)

\* binascii.a2b_base64, the loop: symbols outside the alphabet and misplaced
\* pads are skipped, a pad in place ends the input, every symbol shifts six
\* bits in and a byte comes out whenever eight are there.
RECURSIVE a2b_loop(_, _, _)
a2b_loop(s, pos, st) ==
  IF pos > Len(s) THEN st
  ELSE IF s[pos] = BASE64_PAD
  THEN IF \/ st.quad_pos < 2
          \/ st.quad_pos = 2 /\ binascii_find_valid(s, pos, 1) # BASE64_PAD
       THEN a2b_loop(s, pos + 1, st)
       ELSE [st EXCEPT !.leftbits = 0]
  ELSE IF B64Index(s[pos]) = -1 THEN a2b_loop(s, pos + 1, st)
  ELSE LET leftchar == st.leftchar * 64 + B64Index(s[pos])
           leftbits == st.leftbits + 6
           quad_pos == (st.quad_pos + 1) % 4
       IN IF leftbits >= 8
          THEN a2b_loop(s, pos + 1,
                 [quad_pos |-> quad_pos,
                  leftbits |-> leftbits - 8,
                  leftchar |-> leftchar % (2 ^ (leftbits - 8)),
                  bin |-> Append(st.bin, (leftchar \div (2 ^ (leftbits - 8))) % 256)])
          ELSE a2b_loop(s, pos + 1,
                 [quad_pos |-> quad_pos, leftbits |-> leftbits,
                  leftchar |-> leftchar, bin |-> st.bin])

\* base64.b64decode: binascii's "Incorrect padding" is raised as TypeError, and
\* so is an argument that is no string.
b64decode(item) ==
  IF item.k # "str" THEN Raise("TypeError")
  ELSE LET st == a2b_loop(item.s, 1,
                   [quad_pos |-> 0, leftbits |-> 0, leftchar |-> 0, bin |-> <<>>])
       IN IF st.leftbits # 0 THEN Raise("TypeError")
          ELSE Return(PyBytes(st.bin))

\* --------------------------------------------------------------- the wire
\* An encoded message (a str): the text of a JSON document, a blank text of
\* n whitespace characters, or a text that is no JSON at all.
JsonText(doc) == [w |-> "json", doc |-> doc]
Blank(n) == [w |-> "blank", n |-> n]
Garbage == [w |-> "garbage"]

\* simplejson.loads: ValueError for a text that is no JSON document.
loads(text) ==
  IF text.w = "json" THEN Return(text.doc) ELSE Raise("ValueError")

\* ---------------------------------------------------- protojson: encoding
\* The values the test `item not in (None, [], ())` leaves out.
Omitted_falsy ==
  {None, PyList(<<>>), PyInt(0), PyFloat(0), PyBool(FALSE), PyStr(<<>>),
   PyBytes(<<>>)}

Omitted == {None, PyList(<<>>)}

\* _MessageJSONEncoder.default
default(value) ==
  IF value.k = "enum" THEN Return(PyStr(value.en))
  ELSE IF value.k = "msg"
  THEN LET retained == {fd \in all_fields(value.mt) :
                          value.mv[fd.name] \notin Omitted}
           item(fd) ==
             LET v == value.mv[fd.name] IN
               IF fd.kind = "Bytes"
               THEN IF fd.repeated
                    THEN PyList([j \in DOMAIN v.l |-> PyStr(b64encode(v.l[j].y))])
                    ELSE PyStr(b64encode(v.y))
               ELSE v
       IN Return(PyDict([n \in {fd.name : fd \in retained} |->
                          item(field_by_name(value.mt, n).value)]))
  ELSE Raise("TypeError")

\* simplejson's JSONEncoder: what it knows is written as it is, lists and
\* dicts element by element, anything else through default().
RECURSIVE JsonOf(_)
JsonOf(v) ==
  CASE v.k \in {"None", "int", "float", "bool", "str"} -> v
    [] v.k = "list" -> PyList([j \in DOMAIN v.l |-> JsonOf(v.l[j])])
    [] v.k = "dict" -> PyDict([n \in DOMAIN v.d |-> JsonOf(v.d[n])])
    [] OTHER -> JsonOf(default(v).value)

\* simplejson.dumps(message, cls=_MessageJSONEncoder)
dumps(v) == JsonText(JsonOf(v))

encode_message_unchecked(m) == Return(dumps(m))

\* protojson.encode_message
encode_message(m) ==
  IF ~check_initialized(m).ok THEN check_initialized(m)
  ELSE Return(dumps(m))

\* ---------------------------------------------------- protojson: decoding
\* Message.reset(name): clears the field; AttributeError for a name that is
\* no field of the message.
reset(message_type, name) ==
  IF field_by_name(message_type, name).ok THEN Return(None)
  ELSE Raise("AttributeError")

Errors(outcomes) == {o \in outcomes : ~o.ok}
TheOne(outcomes) == CHOOSE o \in outcomes : TRUE

\* Every decoding operator returns the set of its possible outcomes: a dict is
\* walked in no fixed order, so when several of its keys raise, any of them
\* may be the one that ends the call.
RECURSIVE decode_dictionary(_, _), ConvertItem(_, _), ConvertItems(_, _)

ConvertItem_bytes_as_text(field, item) ==
  CASE field.kind = "Enum" -> {EnumLookup(field.type, item)}
    [] field.kind = "Message" -> decode_dictionary(field.type, item)
    [] field.kind = "Float" /\ item.k = "int" -> {Return(PyFloat(item.i))}
    [] OTHER -> {Return(item)}

\* decode_dictionary, the conversion of one item by the kind of the field
ConvertItem(field, item) ==
  CASE field.kind = "Enum" -> {EnumLookup(field.type, item)}
    [] field.kind = "Bytes" -> {b64decode(item)}
    [] field.kind = "Message" -> decode_dictionary(field.type, item)
    [] field.kind = "Float" /\ item.k = "int" -> {Return(PyFloat(item.i))}
    [] OTHER -> {Return(item)}

\* decode_dictionary, `for item in value`: the first item that raises ends it.
ConvertItems(field, items) ==
  IF items = <<>> THEN {Return(<<>>)}
  ELSE LET first == ConvertItem(field, Head(items)) IN
         IF Errors(first) # {} THEN Errors(first)
         ELSE LET rest == ConvertItems(field, Tail(items)) IN
                IF Errors(rest) # {} THEN Errors(rest)
                ELSE {Return(<<TheOne(first).value>> \o TheOne(rest).value)}

DecodeEntry_first_item(message_type, key, value) ==
  IF value.k = "None" THEN {reset(message_type, key)}
  ELSE IF ~field_by_name(message_type, key).ok THEN {Return(None)}
  ELSE LET field == field_by_name(message_type, key).value
           items == IF value.k = "list" THEN value.l ELSE <<value>>
       IN IF items = <<>> THEN {Return(None)}
          ELSE LET converted == ConvertItems(field, items) IN
                 IF Errors(converted) # {} THEN Errors(converted)
                 ELSE LET valid_value == TheOne(converted).value
                          assigned == IF field.repeated THEN PyList(valid_value)
                                      ELSE valid_value[1]
                      IN IF validate(field, assigned) THEN {Return(assigned)}
                         ELSE {Raise("ValidationError")}

DecodeEntry_null_as_value(message_type, key, value) ==
  IF ~field_by_name(message_type, key).ok THEN {Return(None)}
  ELSE LET field == field_by_name(message_type, key).value
           items == IF value.k = "list" THEN value.l ELSE <<value>>
       IN IF items = <<>> THEN {Return(None)}
          ELSE LET converted == ConvertItems(field, items) IN
                 IF Errors(converted) # {} THEN Errors(converted)
                 ELSE LET valid_value == TheOne(converted).value
                          assigned == IF field.repeated THEN PyList(valid_value)
                                      ELSE valid_value[Len(valid_value)]
                      IN IF validate(field, assigned) THEN {Return(assigned)}
                         ELSE {Raise("ValidationError")}

\* decode_dictionary, the body of `for key, value in dictionary.iteritems()`:
\* the value the field is left with (None: reset, or never assigned).
DecodeEntry(message_type, key, value) ==
  IF value.k = "None" THEN {reset(message_type, key)}
  ELSE IF ~field_by_name(message_type, key).ok THEN {Return(None)}
  ELSE LET field == field_by_name(message_type, key).value
           items == IF value.k = "list" THEN value.l ELSE <<value>>
       IN IF items = <<>> THEN {Return(None)}
          ELSE LET converted == ConvertItems(field, items) IN
                 IF Errors(converted) # {} THEN Errors(converted)
                 ELSE LET valid_value == TheOne(converted).value
                          assigned == IF field.repeated THEN PyList(valid_value)
                                      ELSE valid_value[Len(valid_value)]
                      IN IF validate(field, assigned) THEN {Return(assigned)}
                         ELSE {Raise("ValidationError")}

\* decode_message.decode_dictionary
decode_dictionary(message_type, dictionary) ==
  IF dictionary.k # "dict" THEN {Raise("AttributeError")}
  ELSE LET errors == UNION {Errors(DecodeEntry(message_type, key, dictionary.d[key])) :
                              key \in DOMAIN dictionary.d}
       IN IF errors # {} THEN errors
          ELSE {Return(PyMsg(message_type,
                  [n \in FieldNames(message_type) |->
                     IF n \in DOMAIN dictionary.d
                     THEN TheOne(DecodeEntry(message_type, n, dictionary.d[n])).value
                     ELSE None]))}

decode_message_blank_checked(message_type, encoded_message) ==
  IF encoded_message.w = "blank"
  THEN IF ~check_initialized(NewMessage(message_type)).ok
       THEN {check_initialized(NewMessage(message_type))}
       ELSE {Return(NewMessage(message_type))}
  ELSE IF ~loads(encoded_message).ok THEN {loads(encoded_message)}
  ELSE LET merged == decode_dictionary(message_type, loads(encoded_message).value) IN
         IF Errors(merged) # {} THEN Errors(merged)
         ELSE IF ~check_initialized(TheOne(merged).value).ok
         THEN {check_initialized(TheOne(merged).value)}
         ELSE merged

\* protojson.decode_message
decode_message(message_type, encoded_message) ==
  IF encoded_message.w = "blank" THEN {Return(NewMessage(message_type))}
  ELSE IF ~loads(encoded_message).ok THEN {loads(encoded_message)}
  ELSE LET merged == decode_dictionary(message_type, loads(encoded_message).value) IN
         IF Errors(merged) # {} THEN Errors(merged)
         ELSE IF ~check_initialized(TheOne(merged).value).ok
         THEN {check_initialized(TheOne(merged).value)}
         ELSE merged

\* --------------------------------------------------- the codec's inputs
ByteVals == {1, 254}

ElemValues(fd, nested) ==
  CASE fd.kind = "Integer" -> {PyInt(0), PyInt(1)}
    [] fd.kind = "Float" -> {PyFloat(0), PyFloat(2)}
    [] fd.kind = "String" -> {PyStr(<<>>), PyStr(<<"a">>)}
    [] fd.kind = "Boolean" -> {PyBool(FALSE), PyBool(TRUE)}
    [] fd.kind = "Bytes" -> {PyBytes(y) : y \in SeqsUpTo(ByteVals, MaxBytesLen)}
    [] fd.kind = "Enum" -> EnumTypes[fd.type]
    [] fd.kind = "Message" -> nested

FieldValues(fd, nested) ==
  {None} \cup
  IF fd.repeated
  THEN {PyList(q) : q \in SeqsUpTo(ElemValues(fd, nested), MaxRepeat)}
  ELSE ElemValues(fd, nested)

\* Every message of a type, initialized or not, over the value samples.
MessagesOver(message_type, nested) ==
  LET all == UNION {FieldValues(fd, nested) : fd \in all_fields(message_type)}
  IN {PyMsg(message_type, f) :
        f \in {g \in [FieldNames(message_type) -> all] :
                 \A fd \in all_fields(message_type) :
                   g[fd.name] \in FieldValues(fd, nested)}}

InnerMessages == MessagesOver("Inner", {})
CodecTypes == {"Inner", "Scalars", "Rich", "ListI", "ListY", "ListM"}
AllMessages == UNION {MessagesOver(t, InnerMessages) : t \in CodecTypes}

\* JSON values a request may carry under a key.
JsonSamples ==
  {None, PyInt(1), PyBool(TRUE), PyStr(RED), PyStr(<<"A", "Q", "=", "=">>),
   PyStr(<<"A">>), PyList(<<>>), PyList(<<PyInt(0), PyInt(1)>>),
   PyDict(<<>>), PyDict([n |-> PyInt(1)]),
   PyDict([n |-> PyInt(1), zz |-> None])}

\* The JSON objects over the fields of a type and one key, "zz", that no
\* message type has.
DocsOf(message_type) ==
  LET keys == FieldNames(message_type) \cup {"zz"} IN
    UNION {{PyDict(f) : f \in [present -> JsonSamples]} : present \in SUBSET keys}

DecodeTypes == {"Inner", "Rich", "ListI"}

\* The JSON objects over the fields of a type whose values are null or a number.
NullDocsOf(message_type) ==
  UNION {{PyDict(f) : f \in [present -> {None, PyInt(1)}]} :
           present \in SUBSET FieldNames(message_type)}

\* The texts decoded as a type: every sample document for the types of
\* DecodeTypes, the null documents for the others.
EncodedInputs(message_type) ==
  {Blank(0), Blank(1), Garbage, JsonText(PyInt(1)), JsonText(PyList(<<>>))}
  \cup {JsonText(doc) : doc \in IF message_type \in DecodeTypes
                                THEN DocsOf(message_type)
                                ELSE NullDocsOf(message_type)}

\* ------------------------------------------------------ the codec harness
DispatcherIdle ==
  /\ environ = None
  /\ pc = "idle"
  /\ method_name = ""
  /\ content_type = ""
  /\ protocol = None
  /\ request = None
  /\ instances = 0
  /\ request_state = None
  /\ behaviour = None
  /\ responses = <<>>
  /\ escaped = ""

\* No application is serving several requests.
ApplicationIdle ==
  /\ frames = <<>>
  /\ instance_calls = <<>>

CodecInit ==
  /\ DispatcherIdle
  /\ ApplicationIdle
  /\ phase = "init"
  /\ encoded = None
  /\ decoded = None
  /\ \/ /\ message \in AllMessages
        /\ target = message.mt
        /\ wire = None
     \/ /\ message = None
        /\ target \in CodecTypes
        /\ wire \in EncodedInputs(target)

\* encode_message(message)
EncodeMessage ==
  /\ phase = "init"
  /\ message.k = "msg"
  /\ encoded' = encode_message(message)
  /\ wire' = IF encoded'.ok THEN encoded'.value ELSE None
  /\ phase' = "encoded"
  /\ UNCHANGED <<message, target, decoded>>
  /\ UNCHANGED dvars
  /\ UNCHANGED kvars

\* decode_message(target, wire)
DecodeMessage ==
  /\ phase \in {"init", "encoded"}
  /\ "w" \in DOMAIN wire
  /\ decoded' \in decode_message(target, wire)
  /\ phase' = "decoded"
  /\ UNCHANGED <<message, target, wire, encoded>>
  /\ UNCHANGED dvars
  /\ UNCHANGED kvars

CodecNext == EncodeMessage \/ DecodeMessage

CodecSpec == CodecInit /\ [][CodecNext]_vars

\* ------------------------------------------------- protocols (remote.py)
\* remote.Protocols as service_mapping configures it: protobuf and protojson,
\* each under its default content type and its alternative content types.
protobuf_config == [name |-> "protobuf",
                    default_content_type |-> "application/octet-stream"]
protojson_config == [name |-> "protojson",
                     default_content_type |-> "application/json"]

by_content_type ==
  [ct \in {"application/octet-stream", "application/x-google-protobuf",
           "application/json", "application/x-javascript"} |->
     IF ct \in {"application/json", "application/x-javascript"}
     THEN protojson_config ELSE protobuf_config]

\* Protocols.lookup_by_content_type: KeyError for an unregistered type.
lookup_by_content_type(ct) ==
  IF ct \in DOMAIN by_content_type THEN Return(by_content_type[ct])
  ELSE Raise("KeyError")

\* protobuf.encode_message: the binary encoding of an initialized message.
ProtobufBytes(m) == [w |-> "pb", msg |-> m]
protobuf_encode_message(m) ==
  IF ~check_initialized(m).ok THEN check_initialized(m)
  ELSE Return(ProtobufBytes(m))

\* protobuf.decode_message: DecodeError for bytes that are no encoding of the
\* type, ValidationError for a message that is not initialized.
protobuf_decode_message(message_type, encoded_message) ==
  LET m == IF encoded_message.w = "pb" THEN encoded_message.msg
           ELSE NewMessage(message_type)
  IN IF \/ encoded_message.w = "pb" /\ encoded_message.msg.mt = message_type
        \/ encoded_message.w = "blank" /\ encoded_message.n = 0
     THEN IF check_initialized(m).ok THEN {Return(m)} ELSE {check_initialized(m)}
     ELSE {Raise("DecodeError")}

\* protocol.encode_message / protocol.decode_message
ProtocolEncode(config, m) ==
  IF config.name = "protojson" THEN encode_message(m)
  ELSE protobuf_encode_message(m)

ProtocolDecode(config, message_type, encoded_message) ==
  IF config.name = "protojson" THEN decode_message(message_type, encoded_message)
  ELSE protobuf_decode_message(message_type, encoded_message)

\* --------------------------------------------------- wsgi/service.py
\* service_mapping(service_factory, service_path): the service is mounted at
\* "/svc" and has one remote method.
service_path_pattern == "/svc"
remote_methods ==
  [echo |-> [request_type |-> "Rich", response_type |-> "Inner"]]
definition_name == "svc.EchoService"
PROTORPC_PROJECT_URL == "http://code.google.com/p/google-protorpc"

\* dict.get(key, default)
EnvGet(env, key, dflt) == IF key \in DOMAIN env THEN env[key] ELSE dflt

\* path_matcher.match(environ['PATH_INFO']) for _REQUEST_PATH_PATTERN: the
\* service path, a dot, a method name.  A path is a sequence of its parts.
path_matcher_match(path) ==
  IF Len(path) = 3 /\ path[1] = service_path_pattern /\ path[2] = "."
  THEN Return([service_path |-> path[1], method_name |-> path[3]])
  ELSE Raise("no match")

\* cgi.parse_header(content_type)[0]: a header value is the sequence of its
\* ";"-separated parts, the first is the content type.
parse_header_0(value) == Head(value)

\* int(text): ValueError unless the text is a non-empty run of digits.
DigitChars == <<"0", "1", "2", "3", "4", "5", "6", "7", "8", "9">>
DigitOf(c) == (CHOOSE j \in 1..10 : DigitChars[j] = c) - 1
RECURSIVE DigitsValue(_)
DigitsValue(text) ==
  IF text = <<>> THEN 0
  ELSE 10 * DigitsValue(SubSeq(text, 1, Len(text) - 1)) + DigitOf(text[Len(text)])
int(text) ==
  IF text # <<>> /\ \A j \in DOMAIN text : text[j] \in Range(DigitChars)
  THEN Return(DigitsValue(text)) ELSE Raise("ValueError")

\* environ['wsgi.input'].read(n): the first n bytes.  A proper, non-empty
\* prefix of an encoded message is no encoded message.
read(input, n) ==
  IF n >= input.size THEN input.data
  ELSE IF n = 0 \/ input.data.w = "blank" THEN Blank(n)
  ELSE Garbage

\* A started response: the status and the content type start_response was
\* given, and the body returned.
Response(status_code, ct, content) ==
  [status_code |-> status_code, content_type |-> ct, content |-> content]
PlainText(t) == [w |-> "plain", text |-> t]

\* wsgi_util.error(status_code)(environ, start_response)
_HTTP_NOT_FOUND == Response(404, "text/plain; charset=utf-8", PlainText(<<"Not Found">>))
_HTTP_BAD_REQUEST == Response(400, "text/plain; charset=utf-8", PlainText(<<"Bad Request">>))
_HTTP_UNSUPPORTED_MEDIA_TYPE ==
  Response(415, "text/plain; charset=utf-8", PlainText(<<"Unsupported Media Type">>))

\* the error_handler of `if request_method != 'POST'`
method_not_allowed(service_path, name) ==
  Response(405, "text/plain; charset=utf-8",
           PlainText(<<PROTORPC_PROJECT_URL, ".", service_path, " is a ProtoRPC method.\n\nService ",
                       name, "\n\nMore about ProtoRPC: ", definition_name, "\n">>))

\* remote.RpcStatus(state=state, error_message=message, error_name=error_name)
RpcStatus(state, error_message, error_name) ==
  PyMsg("RpcStatus", [state |-> RpcStateOf(state),
                      error_message |-> error_message,
                      error_name |-> error_name])

send_rpc_error_protojson(config, status_code, state, error_message, error_name) ==
  LET encoded_status == encode_message(RpcStatus(state, error_message, error_name))
  IN IF ~encoded_status.ok THEN encoded_status
     ELSE Return(Response(status_code, config.default_content_type,
                          encoded_status.value))

\* send_rpc_error: the closure over `protocol`, which is its first parameter
\* here.  The outcome is the response begun, or what encoding the status raised.
send_rpc_error(config, status_code, state, error_message, error_name) ==
  LET encoded_status ==
        ProtocolEncode(config, RpcStatus(state, error_message, error_name))
  IN IF ~encoded_status.ok THEN encoded_status
     ELSE Return(Response(status_code, config.default_content_type,
                          encoded_status.value))

\* `except (messages.ValidationError, messages.DecodeError), err`
RequestErrors == {"ValidationError", "DecodeError"}

\* the message of the REQUEST_ERROR status; the text of the exception is
\* stood for by its class
request_error_message(err) ==
  PyStr(<<"Error parsing ProtoRPC request (Unable to parse request content: ",
          err, ")">>)

on_application_error_swapped(config, err) ==
  send_rpc_error(config, 400, "APPLICATION_ERROR", err.error_name, err.message)

\* `except remote.ApplicationError, err`
on_application_error(config, err) ==
  send_rpc_error(config, 400, "APPLICATION_ERROR", err.message, err.error_name)

on_exception_leaking(config, err) ==
  send_rpc_error(config, 500, "SERVER_ERROR", err.message, None)

\* `except Exception, err`
on_exception(config, err) ==
  send_rpc_error(config, 500, "SERVER_ERROR",
                 PyStr(<<"Internal Server Error">>), None)

invocation_encode_outside_try(config, ct, did) ==
  IF did.k = "return"
  THEN LET encoded_response == ProtocolEncode(config, did.response) IN
         IF encoded_response.ok
         THEN Return(Response(200, ct, encoded_response.value))
         ELSE encoded_response
  ELSE IF did.cls = "ApplicationError" THEN on_application_error(config, did)
  ELSE on_exception(config, did)

\* the try statement around method(instance, request) and what follows it
invocation(config, ct, did) ==
  IF did.k = "return"
  THEN LET encoded_response == ProtocolEncode(config, did.response) IN
         IF encoded_response.ok
         THEN Return(Response(200, ct, encoded_response.value))
         ELSE on_exception(config, [k |-> "raise", cls |-> encoded_response.error,
                                    message |-> PyStr(<<"not initialized">>),
                                    error_name |-> None])
  ELSE IF did.cls = "ApplicationError" THEN on_application_error(config, did)
  ELSE on_exception(config, did)

\* ----------------------------------------------------- the requests
Paths ==
  {<<"/svc", ".", "echo">>, <<"/svc", ".", "nope">>,
   <<"/other", ".", "echo">>, <<"/svc">>}
RequestMethods == {"POST", "GET"}
\* <<>> is the empty header value
ContentTypeValues ==
  {<<>>, <<"application/json">>, <<"application/json", "charset=utf-8">>,
   <<"application/x-javascript">>, <<"application/octet-stream">>,
   <<"text/plain">>}
HttpContentTypeValues == {<<"application/octet-stream">>}
ContentLengthValues ==
  {<<>>, <<"x">>, <<"0">>, <<"1">>, <<"2">>, <<"1", "0">>}

InnerOne == PyMsg("Inner", [n |-> PyInt(1), t |-> None])
RichOne == PyMsg("Rich", [e |-> PyEnum("Color", RED, 1), y |-> PyBytes(<<1>>),
                          m |-> InnerOne])
RequestDocs ==
  {PyDict([m |-> PyDict([n |-> PyInt(1)]), e |-> PyStr(RED),
           y |-> PyStr(<<"A", "Q", "=", "=">>)]),
   PyDict(<<>>),
   PyDict([m |-> PyDict(<<>>)]),
   PyDict([m |-> PyDict([n |-> PyStr(<<"a">>)])]),
   PyDict([m |-> PyDict([n |-> PyInt(1)]), e |-> PyStr(<<"A">>)]),
   PyDict([m |-> PyDict([n |-> PyInt(1)]), y |-> PyStr(<<"A">>)]),
   PyDict([m |-> PyDict([n |-> PyInt(1)]), zz |-> None])}

\* wsgi.input: the body and its size; every body that is not blank counts
\* two units.
RequestBodies ==
  {[data |-> Blank(0), size |-> 0], [data |-> Blank(1), size |-> 1],
   [data |-> Garbage, size |-> 2],
   [data |-> ProtobufBytes(RichOne), size |-> 2],
   [data |-> ProtobufBytes(NewMessage("Rich")), size |-> 2]}
  \cup {[data |-> JsonText(doc), size |-> 2] : doc \in RequestDocs}

ServerPortValues == {<<"8", "0">>}

OptionalKeys == {"CONTENT_TYPE", "HTTP_CONTENT_TYPE", "CONTENT_LENGTH", "SERVER_PORT"}
OptionalValues(key) ==
  CASE key = "CONTENT_TYPE" -> ContentTypeValues
    [] key = "HTTP_CONTENT_TYPE" -> HttpContentTypeValues
    [] key = "CONTENT_LENGTH" -> ContentLengthValues
    [] key = "SERVER_PORT" -> ServerPortValues

Environs ==
  {("PATH_INFO" :> path) @@ ("REQUEST_METHOD" :> verb) @@ ("wsgi.input" :> body)
     @@ opt :
     path \in Paths, verb \in RequestMethods, body \in RequestBodies,
     opt \in UNION {{f \in [present -> ContentTypeValues \cup HttpContentTypeValues
                                        \cup ContentLengthValues
                                        \cup ServerPortValues] :
                       \A key \in present : f[key] \in OptionalValues(key)} :
                    present \in SUBSET OptionalKeys}}

\* What a service method may do: return a message, raise an ApplicationError,
\* raise anything else.
ErrorTexts == {PyStr(<<"boom">>), PyStr(<<"/etc/passwd">>)}
MethodBehaviours ==
  {[k |-> "return", response |-> m] : m \in InnerMessages}
  \cup {[k |-> "raise", cls |-> "ApplicationError", message |-> t, error_name |-> n] :
          t \in {PyStr(<<"bad input">>), PyStr(<<>>)},
          n \in {PyStr(<<"E1">>), None}}
  \cup {[k |-> "raise", cls |-> c, message |-> t, error_name |-> None] :
          c \in {"ValueError", "RuntimeError"}, t \in ErrorTexts}

\* ------------------------------------------- protorpc_service_app, by step
CodecIdle ==
  /\ phase = "idle"
  /\ message = None
  /\ target = ""
  /\ wire = None
  /\ encoded = None
  /\ decoded = None

Init ==
  /\ ApplicationIdle
  /\ phase = "idle"
  /\ message = None
  /\ target = ""
  /\ wire = None
  /\ encoded = None
  /\ decoded = None
  /\ environ \in Environs
  /\ pc = "start"
  /\ method_name = ""
  /\ content_type = ""
  /\ protocol = None
  /\ request = None
  /\ instances = 0
  /\ request_state = None
  /\ behaviour = None
  /\ responses = <<>>
  /\ escaped = ""

\* The handler ends: with the response begun, or with the exception raised.
Finish(outcome) ==
  /\ pc' = "done"
  /\ responses' = IF outcome.ok THEN Append(responses, outcome.value) ELSE responses
  /\ escaped' = IF outcome.ok THEN escaped ELSE outcome.error

\* path_match = path_matcher.match(environ['PATH_INFO'])
MatchPath ==
  /\ pc = "start"
  /\ LET path_match == path_matcher_match(environ["PATH_INFO"]) IN
       IF ~path_match.ok
       THEN /\ Finish(Return(_HTTP_NOT_FOUND))
            /\ UNCHANGED method_name
       ELSE /\ method_name' = path_match.value.method_name
            /\ pc' = "content_type"
            /\ UNCHANGED <<responses, escaped>>
  /\ UNCHANGED <<environ, content_type, protocol, request, instances,
                 request_state, behaviour>>
  /\ UNCHANGED cvars
  /\ UNCHANGED kvars

\* content_type = environ.get('CONTENT_TYPE') or environ.get('HTTP_CONTENT_TYPE')
CheckContentType ==
  /\ pc = "content_type"
  /\ LET first == EnvGet(environ, "CONTENT_TYPE", <<>>)
         value == IF first # <<>> THEN first
                  ELSE EnvGet(environ, "HTTP_CONTENT_TYPE", <<>>)
     IN IF value = <<>>
        THEN /\ Finish(Return(_HTTP_BAD_REQUEST))
             /\ UNCHANGED content_type
        ELSE /\ content_type' = parse_header_0(value)
             /\ pc' = "verb"
             /\ UNCHANGED <<responses, escaped>>
  /\ UNCHANGED <<environ, method_name, protocol, request, instances,
                 request_state, behaviour>>
  /\ UNCHANGED cvars
  /\ UNCHANGED kvars

\* if request_method != 'POST'
CheckRequestMethod ==
  /\ pc = "verb"
  /\ IF environ["REQUEST_METHOD"] # "POST"
     THEN Finish(Return(method_not_allowed(environ["PATH_INFO"][1], method_name)))
     ELSE pc' = "protocol" /\ UNCHANGED <<responses, escaped>>
  /\ UNCHANGED <<environ, method_name, content_type, protocol, request,
                 instances, request_state, behaviour>>
  /\ UNCHANGED cvars
  /\ UNCHANGED kvars

\* protocol = protocols.lookup_by_content_type(content_type)
LookupProtocol ==
  /\ pc = "protocol"
  /\ LET found == lookup_by_content_type(content_type) IN
       IF ~found.ok
       THEN /\ Finish(Return(_HTTP_UNSUPPORTED_MEDIA_TYPE))
            /\ UNCHANGED protocol
       ELSE /\ protocol' = found.value
            /\ pc' = "method"
            /\ UNCHANGED <<responses, escaped>>
  /\ UNCHANGED <<environ, method_name, content_type, request, instances,
                 request_state, behaviour>>
  /\ UNCHANGED cvars
  /\ UNCHANGED kvars

\* method = remote_methods.get(method_name)
LookupMethod ==
  /\ pc = "method"
  /\ IF method_name \notin DOMAIN remote_methods
     THEN Finish(send_rpc_error(protocol, 400, "METHOD_NOT_FOUND_ERROR",
                   PyStr(<<"Unrecognized RPC method: ", method_name>>), None))
     ELSE pc' = "decode" /\ UNCHANGED <<responses, escaped>>
  /\ UNCHANGED <<environ, method_name, content_type, protocol, request,
                 instances, request_state, behaviour>>
  /\ UNCHANGED cvars
  /\ UNCHANGED kvars

\* What reading and decoding the body may come to: the request message, or
\* the exception raised by int() or by protocol.decode_message.
DecodeOutcomes(env, config, name) ==
  LET content_length == int(EnvGet(env, "CONTENT_LENGTH", <<"0">>)) IN
    IF ~content_length.ok THEN {content_length}
    ELSE ProtocolDecode(config, remote_methods[name].request_type,
                        read(env["wsgi.input"], content_length.value))

DecodeRequest_lenient ==
  /\ pc = "decode"
  /\ \E outcome \in DecodeOutcomes(environ, protocol, method_name) :
       /\ request' = IF outcome.ok THEN outcome.value
                     ELSE NewMessage(remote_methods[method_name].request_type)
       /\ pc' = "construct"
       /\ UNCHANGED <<responses, escaped>>
  /\ UNCHANGED <<environ, method_name, content_type, protocol, instances,
                 request_state, behaviour>>
  /\ UNCHANGED cvars
  /\ UNCHANGED kvars

\* content_length = int(...); request = protocol.decode_message(...)
DecodeRequest ==
  /\ pc = "decode"
  /\ \E outcome \in DecodeOutcomes(environ, protocol, method_name) :
       IF outcome.ok
       THEN /\ request' = outcome.value
            /\ pc' = "construct"
            /\ UNCHANGED <<responses, escaped>>
       ELSE /\ IF outcome.error \in RequestErrors
               THEN Finish(send_rpc_error(protocol, 400, "REQUEST_ERROR",
                             request_error_message(outcome.error), None))
               ELSE Finish(outcome)
            /\ UNCHANGED request
  /\ UNCHANGED <<environ, method_name, content_type, protocol, instances,
                 request_state, behaviour>>
  /\ UNCHANGED cvars
  /\ UNCHANGED kvars

\* The name of an environ key, as its "_"-separated parts.
NameParts(key) ==
  CASE key = "PATH_INFO" -> <<"PATH", "INFO">>
    [] key = "REQUEST_METHOD" -> <<"REQUEST", "METHOD">>
    [] key = "wsgi.input" -> <<"wsgi.input">>
    [] key = "CONTENT_TYPE" -> <<"CONTENT", "TYPE">>
    [] key = "HTTP_CONTENT_TYPE" -> <<"HTTP", "CONTENT", "TYPE">>
    [] key = "CONTENT_LENGTH" -> <<"CONTENT", "LENGTH">>
    [] key = "SERVER_PORT" -> <<"SERVER", "PORT">>

\* name.startswith('HTTP_')
startswith_HTTP_(key) == Len(NameParts(key)) > 1 /\ Head(NameParts(key)) = "HTTP"

\* str.lower()
lower(part) ==
  CASE part = "CONTENT" -> "content"
    [] part = "TYPE" -> "type"
    [] part = "LENGTH" -> "length"
    [] part = "SERVER" -> "server"
    [] part = "PORT" -> "port"
    [] OTHER -> part

\* .lower().replace('_', '-') of "_"-separated parts
RECURSIVE Dashed(_)
Dashed(parts) ==
  IF Len(parts) = 1 THEN <<lower(Head(parts))>>
  ELSE <<lower(Head(parts)), "-">> \o Dashed(Tail(parts))

\* name[len('HTTP_'):].lower().replace('_', '-')
HeaderName(key) == Dashed(Tail(NameParts(key)))

\* instance = service_factory(); initialize_request_state(request_state) when
\* the instance has it
Construct ==
  /\ pc = "construct"
  /\ instances' = instances + 1
  /\ \E has_initialize_request_state \in BOOLEAN :
       IF ~has_initialize_request_state
       THEN /\ request_state' = None
            /\ pc' = "invoke"
            /\ UNCHANGED <<responses, escaped>>
       ELSE LET server_port ==
                  IF EnvGet(environ, "SERVER_PORT", <<>>) = <<>> THEN Return(None)
                  ELSE int(environ["SERVER_PORT"])
            IN IF ~server_port.ok
               THEN Finish(server_port) /\ UNCHANGED request_state
               ELSE /\ request_state' =
                         [remote_host |-> None, remote_address |-> None,
                          server_host |-> None,
                          server_port |-> server_port.value,
                          http_method |-> environ["REQUEST_METHOD"],
                          service_path |-> environ["PATH_INFO"][1],
                          headers |-> {<<HeaderName(key), environ[key]>> :
                                         key \in {name \in DOMAIN environ :
                                                    startswith_HTTP_(name)}}]
                    /\ pc' = "invoke"
                    /\ UNCHANGED <<responses, escaped>>
  /\ UNCHANGED <<environ, method_name, content_type, protocol, request,
                 behaviour>>
  /\ UNCHANGED cvars
  /\ UNCHANGED kvars

\* response = method(instance, request) and the rest of the handler
Invoke ==
  /\ pc = "invoke"
  /\ \E did \in MethodBehaviours :
       /\ behaviour' = did
       /\ Finish(invocation(protocol, content_type, did))
  /\ UNCHANGED <<environ, method_name, content_type, protocol, request,
                 instances, request_state>>
  /\ UNCHANGED cvars
  /\ UNCHANGED kvars

Next ==
  \/ MatchPath
  \/ CheckContentType
  \/ CheckRequestMethod
  \/ LookupProtocol
  \/ LookupMethod
  \/ DecodeRequest
  \/ Construct
  \/ Invoke

Spec == Init /\ [][Next]_vars

\* ------------------------------------- several requests, one application
\* The application service_mapping returns is called once per request, by as
\* many threads as the server has; each call has its own locals (a frame) and
\* shares with the others what service_mapping closed over.  The steps of the
\* calls interleave.
Requests == 1..NumRequests

RequestTo(path, ct, body) ==
  ("PATH_INFO" :> path) @@ ("REQUEST_METHOD" :> "POST")
    @@ ("CONTENT_TYPE" :> <<ct>>) @@ ("CONTENT_LENGTH" :> <<"2">>)
    @@ ("wsgi.input" :> [data |-> body, size |-> 2])

ConcurrentEnvirons ==
  {RequestTo(<<"/svc", ".", "echo">>, "application/json",
             JsonText(PyDict([m |-> PyDict([n |-> PyInt(1)])]))),
   RequestTo(<<"/svc", ".", "echo">>, "application/octet-stream",
             ProtobufBytes(RichOne)),
   RequestTo(<<"/svc", ".", "nope">>, "application/json",
             JsonText(PyDict([m |-> PyDict([n |-> PyInt(1)])]))),
   RequestTo(<<"/svc", ".", "echo">>, "application/json", Garbage)}

\* The locals of one call, before its first statement.
NewFrame(env) ==
  [environ |-> env, pc |-> "start", method_name |-> "", content_type |-> "",
   protocol |-> None, request |-> None, instance |-> 0, choice |-> "",
   behaviour |-> None, responses |-> <<>>, escaped |-> ""]

\* The call ends: with the response begun, or with the exception raised.
FrameEnd(f, outcome) ==
  [f EXCEPT !.pc = "done",
            !.responses = IF outcome.ok THEN Append(@, outcome.value) ELSE @,
            !.escaped = IF outcome.ok THEN @ ELSE outcome.error]

\* One step of a call up to the decoding of the request: the frames it may
\* leave.  These statements read and write locals only.
CheckStep(f) ==
  CASE f.pc = "start" ->
         LET path_match == path_matcher_match(f.environ["PATH_INFO"]) IN
           {IF ~path_match.ok THEN FrameEnd(f, Return(_HTTP_NOT_FOUND))
            ELSE [f EXCEPT !.method_name = path_match.value.method_name,
                           !.pc = "content_type"]}
    [] f.pc = "content_type" ->
         LET first == EnvGet(f.environ, "CONTENT_TYPE", <<>>)
             value == IF first # <<>> THEN first
                      ELSE EnvGet(f.environ, "HTTP_CONTENT_TYPE", <<>>)
         IN {IF value = <<>> THEN FrameEnd(f, Return(_HTTP_BAD_REQUEST))
             ELSE [f EXCEPT !.content_type = parse_header_0(value),
                            !.pc = "verb"]}
    [] f.pc = "verb" ->
         {IF f.environ["REQUEST_METHOD"] # "POST"
          THEN FrameEnd(f, Return(method_not_allowed(f.environ["PATH_INFO"][1],
                                                     f.method_name)))
          ELSE [f EXCEPT !.pc = "protocol"]}
    [] f.pc = "protocol" ->
         LET found == lookup_by_content_type(f.content_type) IN
           {IF ~found.ok THEN FrameEnd(f, Return(_HTTP_UNSUPPORTED_MEDIA_TYPE))
            ELSE [f EXCEPT !.protocol = found.value, !.pc = "method"]}
    [] f.pc = "method" ->
         {IF f.method_name \notin DOMAIN remote_methods
          THEN FrameEnd(f, send_rpc_error(f.protocol, 400, "METHOD_NOT_FOUND_ERROR",
                             PyStr(<<"Unrecognized RPC method: ", f.method_name>>),
                             None))
          ELSE [f EXCEPT !.pc = "decode"]}
    [] f.pc = "decode" ->
         {IF outcome.ok
          THEN [f EXCEPT !.request = outcome.value, !.pc = "construct"]
          ELSE IF outcome.error \in RequestErrors
          THEN FrameEnd(f, send_rpc_error(f.protocol, 400, "REQUEST_ERROR",
                             request_error_message(outcome.error), None))
          ELSE FrameEnd(f, outcome) :
            outcome \in DecodeOutcomes(f.environ, f.protocol, f.method_name)}
    [] OTHER -> {}

new_instance_cached(existing) == 1

\* instance = service_factory(): an instance that did not exist before.
\* Instances are numbered in the order of their construction.
new_instance(existing) == Len(existing) + 1

\* The frame and the instances after `instance = service_factory()`.  The
\* service of this specification has no initialize_request_state.
Constructed(f, existing) ==
  LET instance == new_instance(existing) IN
    <<[f EXCEPT !.instance = instance, !.pc = "invoke"],
      IF instance > Len(existing) THEN Append(existing, 0) ELSE existing>>

\* The service: its method counts the calls made on the instance, then
\* returns the count in the response or raises an application error.
ServiceChoices == {"count", "fail"}
CountingService(choice, calls) ==
  IF choice = "count"
  THEN [k |-> "return", response |-> PyMsg("Inner", [n |-> PyInt(calls), t |-> None])]
  ELSE [k |-> "raise", cls |-> "ApplicationError",
        message |-> PyStr(<<"bad input">>), error_name |-> None]

\* The frame and the instances after method(instance, request) and the rest
\* of the handler.
Invoked(f, existing, choice) ==
  LET calls == existing[f.instance] + 1
      did == CountingService(choice, calls)
  IN <<FrameEnd([f EXCEPT !.choice = choice, !.behaviour = did],
                invocation(f.protocol, f.content_type, did)),
       [existing EXCEPT ![f.instance] = calls]>>

ConcurrentInit ==
  /\ CodecIdle
  /\ DispatcherIdle
  /\ frames \in [Requests -> {NewFrame(env) : env \in ConcurrentEnvirons}]
  /\ instance_calls = <<>>

\* a statement of request r's call, from the path match to the decoding
HandleChecks(r) ==
  /\ \E g \in CheckStep(frames[r]) : frames' = [frames EXCEPT ![r] = g]
  /\ UNCHANGED instance_calls
  /\ UNCHANGED cvars
  /\ UNCHANGED dvars

\* instance = service_factory() in request r's call
ConstructInstance(r) ==
  /\ frames[r].pc = "construct"
  /\ LET after == Constructed(frames[r], instance_calls) IN
       /\ frames' = [frames EXCEPT ![r] = after[1]]
       /\ instance_calls' = after[2]
  /\ UNCHANGED cvars
  /\ UNCHANGED dvars

\* response = method(instance, request) and the rest of request r's call
InvokeMethod(r) ==
  /\ frames[r].pc = "invoke"
  /\ \E choice \in ServiceChoices :
       LET after == Invoked(frames[r], instance_calls, choice) IN
         /\ frames' = [frames EXCEPT ![r] = after[1]]
         /\ instance_calls' = after[2]
  /\ UNCHANGED cvars
  /\ UNCHANGED dvars

ConcurrentNext ==
  \/ \E r \in Requests : HandleChecks(r)
  \/ \E r \in Requests : ConstructInstance(r)
  \/ \E r \in Requests : InvokeMethod(r)

ConcurrentSpec == ConcurrentInit /\ [][ConcurrentNext]_vars

\* ------------------------------------------------------- codec properties
RECURSIVE NoEmptyCollection(_)
NoEmptyCollection(m) ==
  \A fd \in all_fields(m.mt) :
    LET v == m.mv[fd.name] IN
      /\ fd.repeated /\ v.k = "list" => v.l # <<>>
      /\ (fd.kind = "Message" /\ v.k # "None") =>
           IF fd.repeated
           THEN \A j \in DOMAIN v.l : NoEmptyCollection(v.l[j])
           ELSE NoEmptyCollection(v)

\* C7: for every initialized message m with no field set to an empty
\* collection, decode_message(type(m), encode_message(m)) equals m.
C7_RoundTrip ==
  (phase = "decoded" /\ message.k = "msg"
     /\ is_initialized(message) /\ NoEmptyCollection(message))
  => decoded = Return(message)

\* A message with an enum, a byte string and a nested message has made the trip.
C7_Witness ==
  /\ phase = "decoded" /\ message.k = "msg" /\ message.mt = "Rich"
  /\ message.mv["e"].k = "enum" /\ message.mv["y"].k = "bytes"
  /\ Len(message.mv["y"].y) = 2
  /\ decoded = Return(message)

\* The object with the keys no field of the type has removed.
KnownOnly(message_type, doc) ==
  PyDict([n \in DOMAIN doc.d \cap FieldNames(message_type) |-> doc.d[n]])

HasUnknownKey(message_type, text) ==
  /\ text.w = "json" /\ text.doc.k = "dict"
  /\ DOMAIN text.doc.d \ FieldNames(message_type) # {}

\* C8: decoding an object that has keys which are not fields of the type,
\* whatever their values (null included), gives what decoding the object
\* without those keys gives.
C8_UnknownKeysDiscarded ==
  (phase = "decoded" /\ message.k = "None" /\ HasUnknownKey(target, wire))
  => decoded \in decode_message(target, JsonText(KnownOnly(target, wire.doc)))

\* C9: encode_message on a message that is not initialized raises
\* ValidationError and returns no output.
C9_UninitializedNotEncoded ==
  (phase = "encoded" /\ ~is_initialized(message))
  => (encoded = Raise("ValidationError") /\ wire = None)

\* The required field that is unset sits inside the nested message.
C9_Witness ==
  /\ phase = "encoded" /\ message.mt = "Rich"
  /\ message.mv["m"].k = "msg" /\ message.mv["m"].mv["n"].k = "None"
  /\ encoded = Raise("ValidationError")

RECURSIVE KeysAreRetainedNames(_, _)
KeysAreRetainedNames(m, doc) ==
  /\ doc.k = "dict"
  /\ DOMAIN doc.d =
       {fd.name : fd \in {g \in all_fields(m.mt) :
                            /\ m.mv[g.name].k # "None"
                            /\ ~(m.mv[g.name].k = "list" /\ Len(m.mv[g.name].l) = 0)}}
  /\ \A fd \in all_fields(m.mt) :
       (fd.kind = "Message" /\ fd.name \in DOMAIN doc.d) =>
         IF fd.repeated
         THEN \A j \in DOMAIN m.mv[fd.name].l :
                KeysAreRetainedNames(m.mv[fd.name].l[j], doc.d[fd.name].l[j])
         ELSE KeysAreRetainedNames(m.mv[fd.name], doc.d[fd.name])

\* C10: the keys of the object encode_message produces are exactly the names
\* of the fields whose assigned value is neither None nor an empty sequence,
\* in nested messages too.
C10_KeysExactlyRetained ==
  (phase = "encoded" /\ encoded.ok) =>
     KeysAreRetainedNames(message, encoded.value.doc)

\* Zero, False and the empty text are kept; the empty list is left out.
C10_Witness ==
  /\ phase = "encoded" /\ encoded.ok
  /\ \/ /\ message.mt = "Scalars"
        /\ message.mv["i"] = PyInt(0) /\ message.mv["b"] = PyBool(FALSE)
        /\ message.mv["s"] = PyStr(<<>>) /\ message.mv["f"].k = "None"
        /\ DOMAIN encoded.value.doc.d = {"i", "b", "s"}

\* A JSON object has been decoded as the target type.
DecodedObject ==
  /\ phase = "decoded"
  /\ wire.w = "json"
  /\ wire.doc.k = "dict"

\* C11: after a successful decode, a field that is not repeated and was given
\* an array of values holds the conversion of the last one only; a repeated
\* field holds the whole converted list, a one-element list when it was given a
\* single value; a field given the empty array is left unset.
C11_ArrayAssignment ==
  (DecodedObject /\ decoded.ok) =>
    \A key \in DOMAIN wire.doc.d \cap FieldNames(target) :
      LET field == field_by_name(target, key).value
          value == wire.doc.d[key]
          got == decoded.value.mv[key]
          conv(item) == TheOne(ConvertItem(field, item)).value
      IN /\ (value.k = "list" /\ value.l = <<>>) => got = None
         /\ (value.k = "list" /\ value.l # <<>> /\ ~field.repeated) =>
              got = conv(value.l[Len(value.l)])
         /\ (value.k = "list" /\ value.l # <<>> /\ field.repeated) =>
              /\ got.k = "list"
              /\ Len(got.l) = Len(value.l)
              /\ \A j \in DOMAIN value.l : got.l[j] = conv(value.l[j])
         /\ (value.k \notin {"list", "None"} /\ field.repeated) =>
              got = PyList(<<conv(value)>>)

\* "n": [0, 1] leaves n = 1, and "t": [] leaves t unset.
C11_Witness ==
  /\ DecodedObject /\ decoded.ok
  /\ target = "Inner"
  /\ wire.doc.d = [n |-> PyList(<<PyInt(0), PyInt(1)>>), t |-> PyList(<<>>)]
  /\ decoded.value.mv["n"] = PyInt(1)
  /\ decoded.value.mv["t"] = None

\* The keys of a JSON object that name a field of the type and carry null.
NullKnown(message_type, doc) ==
  {key \in DOMAIN doc.d \cap FieldNames(message_type) : doc.d[key] = None}

WithoutKeys(doc, keys) == PyDict([n \in DOMAIN doc.d \ keys |-> doc.d[n]])

\* C12: a null under the name of a field, whatever the kind of the field and
\* repeated or not, is no error and leaves the field unset: the decode ends as
\* the decode of the object without those keys ends.
C12_NullLeavesUnset ==
  (DecodedObject /\ NullKnown(target, wire.doc) # {}) =>
    /\ decoded \in decode_message(target,
          JsonText(WithoutKeys(wire.doc, NullKnown(target, wire.doc))))
    /\ decoded.ok =>
         \A key \in NullKnown(target, wire.doc) : decoded.value.mv[key] = None

\* "ri": null beside "re": 1 leaves ri unset and re = [RED].
C12_Witness ==
  /\ DecodedObject /\ decoded.ok
  /\ target = "ListI"
  /\ wire.doc.d = [ri |-> None, re |-> PyInt(1)]
  /\ decoded.value.mv["ri"] = None
  /\ decoded.value.mv["re"] = PyList(<<PyEnum("Color", RED, 1)>>)

RequestContentType(env) ==
  IF EnvGet(env, "CONTENT_TYPE", <<>>) # <<>> THEN env["CONTENT_TYPE"]
  ELSE EnvGet(env, "HTTP_CONTENT_TYPE", <<>>)
PathMatches(env) ==
  Len(env["PATH_INFO"]) = 3 /\ env["PATH_INFO"][1] = "/svc" /\ env["PATH_INFO"][2] = "."
HasContentType(env) == RequestContentType(env) # <<>>
IsPost(env) == env["REQUEST_METHOD"] = "POST"
CodecRegistered(env) == RequestContentType(env)[1] \in DOMAIN by_content_type
MethodRegistered(env) == env["PATH_INFO"][3] \in DOMAIN remote_methods
LengthIsNumber(env) == int(EnvGet(env, "CONTENT_LENGTH", <<"0">>)).ok
BodyDecodes(env) ==
  \A o \in DecodeOutcomes(env, by_content_type[RequestContentType(env)[1]],
                          env["PATH_INFO"][3]) : o.ok
ReachesDecode(env) ==
  /\ PathMatches(env) /\ HasContentType(env) /\ IsPost(env)
  /\ CodecRegistered(env) /\ MethodRegistered(env) /\ LengthIsNumber(env)

\* The RpcStatus a response carries, read back from its body.
IsEncoded(r) == r.content.w \in {"json", "pb"}
StatusOf(r) ==
  IF r.content.w = "pb" THEN r.content.msg
  ELSE TheOne(decode_message("RpcStatus", r.content)).value
IsRpcError(r, state) ==
  /\ IsEncoded(r)
  /\ StatusOf(r).mt = "RpcStatus"
  /\ StatusOf(r).mv["state"].en = <<state>>

\* C1: the response is decided by the first failing check in the order path
\* (404), Content-Type presence (400), verb (405), codec (415), method name
\* (400 METHOD_NOT_FOUND_ERROR), request body (400 REQUEST_ERROR), and the
\* method is invoked when none fails.
C1_FirstFailingCheckDecides ==
  (pc = "done" /\ LengthIsNumber(environ)) =>
    /\ escaped = ""
    /\ Len(responses) = 1
    /\ IF ~PathMatches(environ) THEN responses[1].status_code = 404
       ELSE IF ~HasContentType(environ)
       THEN responses[1].status_code = 400 /\ ~IsEncoded(responses[1])
       ELSE IF ~IsPost(environ) THEN responses[1].status_code = 405
       ELSE IF ~CodecRegistered(environ) THEN responses[1].status_code = 415
       ELSE IF ~MethodRegistered(environ)
       THEN /\ responses[1].status_code = 400
            /\ IsRpcError(responses[1], "METHOD_NOT_FOUND_ERROR")
       ELSE IF ~BodyDecodes(environ)
       THEN /\ responses[1].status_code = 400
            /\ IsRpcError(responses[1], "REQUEST_ERROR")
       ELSE instances = 1 /\ behaviour.k # "None"

\* C2: a POST that passes path, content type, codec and method resolution and
\* whose body fails to decode is answered 400 with an RpcStatus REQUEST_ERROR
\* that has a non-empty error_message; the failure does not leave the handler.
C2_DecodeFailureIsRequestError ==
  (pc = "done" /\ ReachesDecode(environ) /\ ~BodyDecodes(environ)) =>
    /\ escaped = ""
    /\ Len(responses) = 1
    /\ responses[1].status_code = 400
    /\ IsRpcError(responses[1], "REQUEST_ERROR")
    /\ StatusOf(responses[1]).mv["error_message"].k = "str"
    /\ StatusOf(responses[1]).mv["error_message"].s # <<>>

\* The one response to a method that failed unexpectedly: it is fixed by the
\* negotiated protocol and by nothing else.
ServerErrorResponse(config) ==
  [status_code |-> 500,
   content_type |-> config.default_content_type,
   content |->
     IF config.name = "protojson"
     THEN JsonText(PyDict([state |-> PyStr(<<"SERVER_ERROR">>),
                           error_message |-> PyStr(<<"Internal Server Error">>)]))
     ELSE ProtobufBytes(PyMsg("RpcStatus",
            [state |-> PyEnum("RpcState", <<"SERVER_ERROR">>, 3),
             error_message |-> PyStr(<<"Internal Server Error">>),
             error_name |-> None]))]

\* C3: when the method raises anything but an application error the response
\* is 500 with an RpcStatus SERVER_ERROR whose error_message is "Internal
\* Server Error"; the response does not depend on the class or the text of
\* what was raised, so two requests that differ only there get the same one.
C3_UnexpectedFailureIsOpaque ==
  (pc = "done" /\ behaviour.k = "raise" /\ behaviour.cls # "ApplicationError") =>
    /\ escaped = ""
    /\ responses = <<ServerErrorResponse(protocol)>>

C3_Witness ==
  /\ pc = "done" /\ behaviour.k = "raise" /\ behaviour.cls = "RuntimeError"
  /\ behaviour.message = PyStr(<<"/etc/passwd">>)
  /\ Len(responses) = 1 /\ responses[1].status_code = 500

\* C4: when the method raises an application error that carries an error name
\* and a message, the response is 400 with an RpcStatus APPLICATION_ERROR
\* whose error_name and error_message are the ones the error carries.
C4_ApplicationErrorPassedThrough ==
  (pc = "done" /\ behaviour.k = "raise" /\ behaviour.cls = "ApplicationError"
     /\ behaviour.error_name.k = "str") =>
    /\ escaped = ""
    /\ Len(responses) = 1
    /\ responses[1].status_code = 400
    /\ IsRpcError(responses[1], "APPLICATION_ERROR")
    /\ StatusOf(responses[1]).mv["error_message"] = behaviour.message
    /\ StatusOf(responses[1]).mv["error_name"] = behaviour.error_name

C4_Witness ==
  /\ pc = "done" /\ behaviour.k = "raise" /\ behaviour.cls = "ApplicationError"
  /\ behaviour.error_name = PyStr(<<"E1">>)
  /\ behaviour.message = PyStr(<<"bad input">>)
  /\ Len(responses) = 1 /\ responses[1].content.w = "json"
  /\ responses[1].content.doc.d["error_name"] = PyStr(<<"E1">>)

RpcErrorStates ==
  {<<"METHOD_NOT_FOUND_ERROR">>, <<"REQUEST_ERROR">>, <<"APPLICATION_ERROR">>,
   <<"SERVER_ERROR">>}

\* C5: every structured RPC error is encoded with the codec negotiated from
\* the content type of the request, the one that decodes the request body.
C5_ErrorsUseNegotiatedCodec ==
  \A j \in DOMAIN responses :
    ("name" \in DOMAIN protocol /\ responses[j].status_code # 200) =>
      /\ responses[j].content.w = IF protocol.name = "protojson" THEN "json" ELSE "pb"
      /\ StatusOf(responses[j]).mt = "RpcStatus"
      /\ StatusOf(responses[j]).mv["state"].en \in RpcErrorStates

C5_Witness ==
  /\ pc = "done" /\ "name" \in DOMAIN protocol /\ protocol.name = "protobuf"
  /\ Len(responses) = 1 /\ responses[1].content.w = "pb"
  /\ IsRpcError(responses[1], "REQUEST_ERROR")

\* C6: every response with a codec-encoded body (the 200 payload and every
\* structured RPC error) has the content type of the request, parameters
\* stripped, as its Content-Type.
C6_ContentTypeMirrorsRequest ==
  \A j \in DOMAIN responses :
    IsEncoded(responses[j]) =>
      responses[j].content_type = RequestContentType(environ)[1]

\* A request that ended at one of the checks before the service is built.
EndedAtCheck ==
  /\ pc = "done" /\ Len(responses) = 1
  /\ \/ responses[1].status_code \in {404, 405, 415}
     \/ /\ responses[1].status_code = 400
        /\ \/ ~IsEncoded(responses[1])
           \/ IsRpcError(responses[1], "METHOD_NOT_FOUND_ERROR")
           \/ IsRpcError(responses[1], "REQUEST_ERROR")

\* C15: a request that ends at one of the checks (404, missing content type,
\* 405, 415, METHOD_NOT_FOUND_ERROR, REQUEST_ERROR) has built no instance and
\* no request state and has invoked no method; an instance, a request state or
\* an invocation exists only for a request whose body decoded.
C15_NoServiceBeforeDecode ==
  /\ EndedAtCheck =>
       instances = 0 /\ request_state = None /\ behaviour = None
  /\ (instances > 0 \/ request_state # None \/ behaviour # None) =>
       /\ ReachesDecode(environ)
       /\ BodyDecodes(environ)
       /\ request.k = "msg"

C15_Witness ==
  /\ EndedAtCheck
  /\ IsRpcError(responses[1], "REQUEST_ERROR")
  /\ instances = 0 /\ request_state = None /\ behaviour = None

\* The environ keys that carry a header of the request, and the header's name.
RequestHeaders ==
  [CONTENT_TYPE |-> <<"content", "-", "type">>,
   CONTENT_LENGTH |-> <<"content", "-", "length">>,
   HTTP_CONTENT_TYPE |-> <<"content", "-", "type">>]

\* C16: the request state handed to an instance that takes one has every
\* header of the request, Content-Type and Content-Length among them, under
\* its lower-case, dash-separated name.
C16_RequestStateHasEveryHeader ==
  request_state # None =>
    \A key \in DOMAIN environ \cap DOMAIN RequestHeaders :
      <<RequestHeaders[key], environ[key]>> \in request_state.headers

\* C17: a handled request has begun exactly one response, with one of the
\* statuses 200, 400, 404, 405, 415, 500, and no exception has left the handler.
C17_ExactlyOneResponse ==
  pc = "done" =>
    /\ escaped = ""
    /\ Len(responses) = 1
    /\ responses[1].status_code \in {200, 400, 404, 405, 415, 500}

\* C18: the method is invoked only with an initialized request message, also
\* when the body is empty or there is no Content-Length.
C18_InvokedWithInitializedRequest ==
  (pc = "invoke" \/ behaviour # None) =>
    request.k = "msg" /\ is_initialized(request)

\* C19: a 200 is begun only when the method returned and its response was
\* encoded, and it is then the only response; a returned response that cannot
\* be encoded ends in the 500 SERVER_ERROR response.
C19_OkOnlyAfterEncoding ==
  /\ \A j \in DOMAIN responses :
       responses[j].status_code = 200 =>
         /\ behaviour.k = "return"
         /\ is_initialized(behaviour.response)
         /\ responses[j].content =
              IF protocol.name = "protojson" THEN dumps(behaviour.response)
              ELSE ProtobufBytes(behaviour.response)
         /\ Len(responses) = 1
         /\ escaped = ""
  /\ (pc = "done" /\ behaviour.k = "return"
        /\ ~is_initialized(behaviour.response)) =>
       /\ escaped = ""
       /\ responses = <<ServerErrorResponse(protocol)>>

C19_Witness ==
  /\ pc = "done" /\ behaviour.k = "return"
  /\ ~is_initialized(behaviour.response)
  /\ Len(responses) = 1 /\ responses[1].status_code = 500
  /\ IsRpcError(responses[1], "SERVER_ERROR")

\* ------------------------------------------ properties of the application
\* The frames a call may end in when no other call is in flight and no
\* instance exists: the request handled alone, the method choosing `choice`.
RECURSIVE HandledAlone(_, _, _)
HandledAlone(f, existing, choice) ==
  IF f.pc = "done" THEN {f}
  ELSE IF f.pc = "construct"
  THEN HandledAlone(Constructed(f, existing)[1], Constructed(f, existing)[2], choice)
  ELSE IF f.pc = "invoke"
  THEN {Invoked(f, existing, choice)[1]}
  ELSE UNION {HandledAlone(g, existing, choice) : g \in CheckStep(f)}

\* C14: whatever the interleaving of the requests of one application, the
\* requests that reach the invocation have each an instance of their own, and
\* a request ends with the response (or the exception) it ends with when it
\* is handled alone.
C14_RequestsAreIsolated ==
  /\ \A r, q \in DOMAIN frames :
       (r # q /\ frames[r].instance # 0 /\ frames[q].instance # 0) =>
         frames[r].instance # frames[q].instance
  /\ \A r \in DOMAIN frames :
       frames[r].pc = "done" =>
         \E alone \in HandledAlone(NewFrame(frames[r].environ), <<>>,
                                   frames[r].choice) :
           /\ alone.responses = frames[r].responses
           /\ alone.escaped = frames[r].escaped

\* Two requests answered 200, the second one's instance built first.
C14_Witness ==
  /\ frames # <<>>
  /\ frames[1].pc = "done" /\ frames[2].pc = "done"
  /\ frames[1].instance = 2 /\ frames[2].instance = 1
  /\ frames[1].choice = "count" /\ frames[2].choice = "count"
  /\ frames[1].responses[1].status_code = 200
  /\ frames[2].responses[1].status_code = 200
  /\ instance_calls[1] = 1 /\ instance_calls[2] = 1

=============================================================================
